---- MODULE Spec2Model ----
(***************************************************************************)
(* Voice chat: the room relay server (server.js part of src/Public/app.js) *)
(* and the browser client: its playback queue, its capture sessions with   *)
(* voice activity detection, and its user list.                            *)
(*                                                                         *)
(* Server state: the rooms registry (Map room -> Map socket.id -> user),   *)
(* each connection's closure variable currentRoom, and the transport's     *)
(* room membership that socket.join / socket.leave maintain and that       *)
(* io.to(room) / socket.to(room) fan out over.  Every handler runs to      *)
(* completion, so one handler is one step.  `out` holds the emissions of   *)
(* the handler that ran last, each with the set of connections it reaches. *)
(***************************************************************************)
EXTENDS Integers, Sequences, FiniteSets, TLC

\* ------------------------------------------------------------- bounds
NumConns == 3
MaxQueue == 3
MaxSessions == 2
MaxReceived == 4
MaxElapsed == 400              \* milliseconds of Date.now() explored after page load
MaxInFlight == 2               \* client events sent and not yet handled by the server

\* ------------------------------------------------------------- inputs
Conns == 1..NumConns            \* socket.id of each connection; 0 is no id

\* What a user can type into roomInput / usernameInput: sequences of characters.
RawRooms == { <<" ">>, <<"A">>, <<" ", "B", " ">> }
\* Each user types nothing or an own name: " u", " uu", " uuu", ...
RawNames(p) == { <<>>, <<" ">> \o [i \in 1..p |-> "u"] }

\* The payloads of a 'speaking' event and of a 'voice' event.
Energies == { -20 }
Blocks == { 1, 2 }             \* 0 is no audio block

\* The browser client whose capture side is modelled, by its socket.id.
Me == 1

\* VAD parameters
ENERGY_THRESHOLD == -45
SPEECH_PADDING == 300

\* What calculateEnergy returns for a captured block, in dB
MicEnergies == { -60, -45, -20 }
\* The readings and the block a capture session is run on
SessionEnergies == { -60, -20 }
SessionBlocks == { 1 }
\* Date.now() when the page is loaded, and the steps in which it is seen to advance
PageLoadTime == 1000
TickMs == 50

\* ------------------------------------------------------------- strings
RECURSIVE TrimLeft(_)
TrimLeft(s) == IF s # <<>> /\ Head(s) = " " THEN TrimLeft(Tail(s)) ELSE s

RECURSIVE TrimRight(_)
TrimRight(s) ==
    IF s # <<>> /\ s[Len(s)] = " " THEN TrimRight(SubSeq(s, 1, Len(s) - 1)) ELSE s

\* String.prototype.trim
Trim(s) == TrimRight(TrimLeft(s))

\* A closure variable holding null or a room name: <<>> is null, <<r>> is r.
Null == <<>>
Some(r) == <<r>>

\* JavaScript truthiness of a string-or-null: null and "" are falsy.
Truthy(v) == v # Null /\ v[1] # <<>>

VARIABLES
    connected,      \* the connected sockets (io.emit reaches these)
    terminated,     \* the sockets whose 'disconnect' handler has run
    rooms,          \* const rooms = new Map()
    members,        \* the transport's rooms: room name -> set of socket ids
    currentRoom,    \* let currentRoom = null, one per connection closure
    out,            \* emissions of the last handler, in order
    threw,          \* the last handler ended with an uncaught TypeError
    last,           \* the event handled last
    userList        \* per connected client, the <li> elements of its userList, by user id

\* One browser client's playback side
VARIABLES
    contexts,       \* state of every AudioContext created; audioContext is the last
    audioQueue,     \* let audioQueue = []
    isPlaying,      \* let isPlaying = false
    playing,        \* buffer sources started whose onended has not fired yet
    received,       \* history: the blocks of every 'voice' event delivered, in order
    played          \* history: the blocks handed to source.start(0), in order

\* The same client's capture side
VARIABLES
    currentUserId,          \* let currentUserId = null (0 is null)
    startDisabled,          \* startButton.disabled
    stopDisabled,           \* stopButton.disabled
    vadEnabled,             \* let vadEnabled = false
    streams,                \* every MediaStream granted, "live" or "stopped"; stream is the last
    processors,             \* every script processor created; scriptProcessor is the last
    micPending,             \* startVoiceChat calls awaiting getUserMedia
    resumePending,          \* contexts whose resume() a startVoiceChat call awaits
    lastVoiceDetectTime,    \* let lastVoiceDetectTime = 0
    isCurrentlySpeaking,    \* let isCurrentlySpeaking = false
    now,                    \* Date.now()
    toServer,               \* events emitted by the client, not yet handled by the server
    loudAt,                 \* history: when the last block above the threshold was seen
    stopMark,               \* history: the streams and processors existing at the last Stop
    lastClassified,         \* history: the classification of the block processed last
                            \*          (not speaking before the first block)
    lastSent,               \* history: isSpeaking of the 'speaking' event emitted last
                            \*          (false before the first event)
    clast                   \* history: the client step taken last

svars == << connected, terminated, rooms, members, currentRoom, out, threw, last,
           userList >>
cvars == << contexts, audioQueue, isPlaying, playing, received, played >>
kvars == << currentUserId, startDisabled, stopDisabled, vadEnabled, streams,
           processors, micPending, resumePending, lastVoiceDetectTime,
           isCurrentlySpeaking, now, toServer, loudAt, stopMark, lastClassified,
           lastSent, clast >>
vars == << connected, terminated, rooms, members, currentRoom, out, threw, last,
           userList,
           contexts, audioQueue, isPlaying, playing, received, played,
           currentUserId, startDisabled, stopDisabled, vadEnabled, streams,
           processors, micPending, resumePending, lastVoiceDetectTime,
           isCurrentlySpeaking, now, toServer, loudAt, stopMark, lastClassified,
           lastSent, clast >>

\* The room names the client can send: joinRoom trims and requires non-empty.
RoomNames == { Trim(r) : r \in RawRooms } \ { <<>> }
UserNames(p) == { Trim(n) : n \in RawNames(p) } \ { <<>> }

\* ------------------------------------------------------------- Map helpers
\* Map.prototype.set and Map.prototype.delete on a function
MapSet(f, k, v) == [x \in DOMAIN f \cup {k} |-> IF x = k THEN v ELSE f[x]]
MapDelete(f, k) == [x \in DOMAIN f \ {k} |-> f[x]]
EmptyMap == << >>

\* ------------------------------------------------------------- emissions
\* One emitted event: its name, the connections it reaches, and its payload.
Msg(ev, to) ==
    [ev |-> ev, to |-> to, id |-> 0, username |-> <<>>, isSpeaking |-> FALSE,
     energy |-> 0, data |-> 0, users |-> {}, roomList |-> {}]

\* Array.from(map.entries()) as a set of <<key, value>> pairs
Entries(f) == { <<k, f[k]>> : k \in DOMAIN f }

\* A packet addressed to a socket that is no longer connected reaches nobody.
Reached(S, ids) == ids \cap S.connected

\* io.to(room): every socket of the transport room
IoTo(S, room) == Reached(S, S.members[room])
\* socket.to(room): every socket of the transport room but the emitting one
SocketTo(S, p, room) == Reached(S, S.members[room] \ {p})
\* io.emit: every connected socket
IoAll(S) == S.connected
\* socket.emit: the socket itself
SocketSelf(S, p) == Reached(S, {p})

Emit(S, m) == [S EXCEPT !.out = Append(@, m)]

\* ------------------------------------------------------------- server.js
\* leaveRoom without the removal of the emptied room
leaveRoom_KeepEmpty(S, p, room) ==
    LET S1 == [S EXCEPT !.members[room] = @ \ {p}]
    IN  IF room \in DOMAIN S1.rooms
        THEN Emit([S1 EXCEPT !.rooms[room] = MapDelete(@, p)],
                  [Msg("user left", IoTo(S1, room)) EXCEPT !.id = p])
        ELSE S1

\* function leaveRoom(socket, room)
leaveRoom(S, p, room) ==
    LET S1 == [S EXCEPT !.members[room] = @ \ {p}]
    IN  IF room \in DOMAIN S1.rooms
        THEN LET roomUsers == MapDelete(S1.rooms[room], p)
                 S2 == Emit([S1 EXCEPT !.rooms[room] = roomUsers],
                            [Msg("user left", IoTo(S1, room)) EXCEPT !.id = p])
             IN  IF DOMAIN roomUsers = {}
                 THEN LET S3 == [S2 EXCEPT !.rooms = MapDelete(@, room)]
                      IN  Emit(S3, [Msg("update rooms", IoAll(S3))
                                        EXCEPT !.roomList = DOMAIN S3.rooms])
                 ELSE S2
        ELSE S1

\* joinRoom without socket.join(room)
joinRoom_NoSocketJoin(S, p, room, username) ==
    LET S1 == [S EXCEPT !.currentRoom[p] = Some(room)]
        S2 == IF room \in DOMAIN S1.rooms
              THEN S1
              ELSE [S1 EXCEPT !.rooms = MapSet(@, room, EmptyMap)]
        user == [username |-> username, isSpeaking |-> FALSE, energy |-> 0]
        S3 == [S2 EXCEPT !.rooms[room] = MapSet(@, p, user)]
        S4 == Emit(S3, [Msg("user joined", IoTo(S3, room))
                            EXCEPT !.id = p, !.username = username])
        S5 == Emit(S4, [Msg("room users", SocketSelf(S4, p))
                            EXCEPT !.users = Entries(S4.rooms[room])])
        S6 == Emit(S5, [Msg("update rooms", IoAll(S5))
                            EXCEPT !.roomList = DOMAIN S5.rooms])
    IN  Emit(S6, [Msg("your id", SocketSelf(S6, p)) EXCEPT !.id = p])

\* function joinRoom(socket, room, username)
joinRoom(S, p, room, username) ==
    LET S1 == [S EXCEPT !.members[room] = @ \cup {p},
                        !.currentRoom[p] = Some(room)]
        S2 == IF room \in DOMAIN S1.rooms
              THEN S1
              ELSE [S1 EXCEPT !.rooms = MapSet(@, room, EmptyMap)]
        user == [username |-> username, isSpeaking |-> FALSE, energy |-> 0]
        S3 == [S2 EXCEPT !.rooms[room] = MapSet(@, p, user)]
        S4 == Emit(S3, [Msg("user joined", IoTo(S3, room))
                            EXCEPT !.id = p, !.username = username])
        S5 == Emit(S4, [Msg("room users", SocketSelf(S4, p))
                            EXCEPT !.users = Entries(S4.rooms[room])])
        S6 == Emit(S5, [Msg("update rooms", IoAll(S5))
                            EXCEPT !.roomList = DOMAIN S5.rooms])
    IN  Emit(S6, [Msg("your id", SocketSelf(S6, p)) EXCEPT !.id = p])

\* 'join room' without leaving the room the connection is bound to
OnJoinRoom_NoLeave(S, p, room, username) == joinRoom(S, p, room, username)

\* socket.on('join room', (room, username) => ...)
OnJoinRoom(S, p, room, username) ==
    LET S1 == IF Truthy(S.currentRoom[p])
              THEN leaveRoom(S, p, S.currentRoom[p][1])
              ELSE S
    IN  joinRoom(S1, p, room, username)

\* 'leave room' that does not tell the leaver
OnLeaveRoom_Silent(S, p) ==
    IF Truthy(S.currentRoom[p])
    THEN [leaveRoom(S, p, S.currentRoom[p][1]) EXCEPT !.currentRoom[p] = Null]
    ELSE S

\* socket.on('leave room', () => ...)
OnLeaveRoom(S, p) ==
    IF Truthy(S.currentRoom[p])
    THEN LET S1 == leaveRoom(S, p, S.currentRoom[p][1])
             S2 == [S1 EXCEPT !.currentRoom[p] = Null]
         IN  Emit(S2, Msg("room left", SocketSelf(S2, p)))
    ELSE S

\* 'voice' without the currentRoom guard: an unbound sender reaches everyone else
OnVoice_NoGuard(S, p, data) ==
    Emit(S, [Msg("voice", IF Truthy(S.currentRoom[p])
                          THEN SocketTo(S, p, S.currentRoom[p][1])
                          ELSE IoAll(S) \ {p})
                 EXCEPT !.id = p, !.data = data])

\* 'voice' relayed with io.to: echoed back to the sender
OnVoice_Echo(S, p, data) ==
    IF Truthy(S.currentRoom[p])
    THEN Emit(S, [Msg("voice", IoTo(S, S.currentRoom[p][1]))
                      EXCEPT !.id = p, !.data = data])
    ELSE S

\* socket.on('voice', (data) => ...)
OnVoice(S, p, data) ==
    IF Truthy(S.currentRoom[p])
    THEN Emit(S, [Msg("voice", SocketTo(S, p, S.currentRoom[p][1]))
                      EXCEPT !.id = p, !.data = data])
    ELSE S

\* 'speaking' broadcast with socket.to: the sender is left out
OnSpeaking_Others(S, p, isSpeaking, energy) ==
    IF Truthy(S.currentRoom[p])
    THEN LET room == S.currentRoom[p][1]
         IN  IF room \notin DOMAIN S.rooms
             THEN [S EXCEPT !.threw = TRUE]
             ELSE IF p \in DOMAIN S.rooms[room]
                  THEN Emit([S EXCEPT !.rooms[room][p].isSpeaking = isSpeaking,
                                      !.rooms[room][p].energy = energy],
                            [Msg("user speaking", SocketTo(S, p, room))
                                 EXCEPT !.id = p, !.isSpeaking = isSpeaking,
                                        !.energy = energy])
                  ELSE S
    ELSE S

\* socket.on('speaking', ({ isSpeaking, energy }) => ...)
\* rooms.get(currentRoom) is undefined for a room that is not in the registry,
\* and undefined.has(...) is an uncaught TypeError.
OnSpeaking(S, p, isSpeaking, energy) ==
    IF Truthy(S.currentRoom[p])
    THEN LET room == S.currentRoom[p][1]
         IN  IF room \notin DOMAIN S.rooms
             THEN [S EXCEPT !.threw = TRUE]
             ELSE IF p \in DOMAIN S.rooms[room]
                  THEN Emit([S EXCEPT !.rooms[room][p].isSpeaking = isSpeaking,
                                      !.rooms[room][p].energy = energy],
                            [Msg("user speaking", IoTo(S, room))
                                 EXCEPT !.id = p, !.isSpeaking = isSpeaking,
                                        !.energy = energy])
                  ELSE S
    ELSE S

\* 'disconnect' without the cleanup
OnDisconnect_NoLeave(S, p) == S

\* socket.on('disconnect', () => ...)
OnDisconnect(S, p) ==
    IF Truthy(S.currentRoom[p])
    THEN leaveRoom(S, p, S.currentRoom[p][1])
    ELSE S

\* ------------------------------------------------------------- steps
\* The server state a handler starts from; its emission list starts empty.
Server ==
    [connected |-> connected, rooms |-> rooms, members |-> members,
     currentRoom |-> currentRoom, out |-> <<>>, threw |-> FALSE]

\* The event a handler was given: its name and the socket it came from.
Event(op, p) == [op |-> op, id |-> p]

\* -------------------------------------------------- client user list
\* The user list of a page: how many <li id="user-<id>"> it holds for each id
\* (the order of the elements is not modelled).
NoUsers == [q \in Conns |-> 0]

\* function addUserToList({ id, username }): appends an element
addUserToList(L, id) == [L EXCEPT ![id] = @ + 1]

\* updateUserList that does not clear the list first
updateUserList_Append(L, users) ==
    [q \in Conns |-> L[q] + Cardinality({ u \in users : u[1] = q })]

\* function updateUserList(users): userList.innerHTML = '' and one
\* addUserToList per entry
updateUserList(L, users) ==
    [q \in Conns |-> Cardinality({ u \in users : u[1] = q })]

\* function removeUserFromList(userId): removes the element getElementById finds
removeUserFromList(L, id) == IF L[id] > 0 THEN [L EXCEPT ![id] = @ - 1] ELSE L

\* The client's handlers of 'room users', 'user joined', 'user left' and
\* 'room left'; no other event changes the list.
OnListEvent(L, m) ==
    CASE m.ev = "room users" -> updateUserList(L, m.users)
      [] m.ev = "user joined" -> addUserToList(L, m.id)
      [] m.ev = "user left" -> removeUserFromList(L, m.id)
      [] m.ev = "room left" -> NoUsers
      [] OTHER -> L

\* The list of client q after it has handled, in order, what emission list o
\* sends to it
RECURSIVE Delivered(_, _, _)
Delivered(L, o, q) ==
    IF o = <<>>
    THEN L
    ELSE Delivered(IF q \in Head(o).to THEN OnListEvent(L, Head(o)) ELSE L,
                   Tail(o), q)

\* The handler's result becomes the next state, and every client handles what
\* the handler sent to it; the page of a closed connection is not followed.
Commit(S, ev) ==
    /\ userList' = [q \in Conns |-> IF q \in S.connected
                                     THEN Delivered(userList[q], S.out, q)
                                     ELSE NoUsers]
    /\ connected' = S.connected
    /\ rooms' = S.rooms
    /\ members' = S.members
    /\ currentRoom' = S.currentRoom
    /\ out' = S.out
    /\ threw' = S.threw
    /\ last' = ev

\* An uncaught exception in a handler ends the server process.
Running == ~threw

ServerInit ==
    /\ connected = {}
    /\ terminated = {}
    /\ rooms = EmptyMap
    /\ members = [r \in RoomNames |-> {}]
    /\ currentRoom = [p \in Conns |-> Null]
    /\ out = <<>>
    /\ threw = FALSE
    /\ last = Event("init", 0)
    /\ userList = [q \in Conns |-> NoUsers]

\* io.on('connection', (socket) => { let currentRoom = null; ... })
Connection(p) ==
    /\ Running
    /\ p \notin connected \cup terminated
    /\ Commit([Server EXCEPT !.connected = @ \cup {p}, !.currentRoom[p] = Null],
              Event("connection", p))
    /\ UNCHANGED << terminated, cvars, kvars >>

\* The client's joinRoom: room and username are the trimmed inputs, and
\* 'join room' is emitted only if (room && username).
CanJoin(rawRoom, rawName) == Trim(rawRoom) # <<>> /\ Trim(rawName) # <<>>

\* A Join click in client p and the server's 'join room' handler for the event
\* it emits.
JoinRoomEvent(p, rawRoom, rawName) ==
    LET room == Trim(rawRoom)
        username == Trim(rawName)
    IN  /\ Running
        /\ p \in connected
        /\ CanJoin(rawRoom, rawName)
        /\ Commit(OnJoinRoom(Server, p, room, username),
                  Event("join room", p))
        /\ UNCHANGED << terminated, cvars, kvars >>

LeaveRoomEvent(p) ==
    /\ Running
    /\ p \in connected
    /\ Commit(OnLeaveRoom(Server, p), Event("leave room", p))
    /\ UNCHANGED << terminated, cvars, kvars >>

VoiceEvent(p, data) ==
    /\ Running
    /\ p \in connected
    /\ Commit(OnVoice(Server, p, data), Event("voice", p))
    /\ UNCHANGED << terminated, cvars, kvars >>

SpeakingEvent(p, isSpeaking, energy) ==
    /\ Running
    /\ p \in connected
    /\ Commit(OnSpeaking(Server, p, isSpeaking, energy),
              Event("speaking", p))
    /\ UNCHANGED << terminated, cvars, kvars >>

\* The transport closes the socket: it leaves every transport room and the set
\* of connected sockets, and then the 'disconnect' handler runs.
Closed(S, p) ==
    [S EXCEPT !.connected = @ \ {p},
              !.members = [r \in DOMAIN @ |-> @[r] \ {p}]]

DisconnectEvent(p) ==
    /\ Running
    /\ p \in connected
    /\ Commit(OnDisconnect(Closed(Server, p), p), Event("disconnect", p))
    /\ terminated' = terminated \cup {p}
    /\ UNCHANGED << cvars, kvars >>

\* Events a connection's handlers are given after its 'disconnect' handler ran
\* (packets of the closed connection that were already decoded).
LateJoinRoomEvent(p, rawRoom, rawName) ==
    LET room == Trim(rawRoom)
        username == Trim(rawName)
    IN  /\ Running
        /\ p \in terminated
        /\ CanJoin(rawRoom, rawName)
        /\ Commit(OnJoinRoom(Server, p, room, username),
                  Event("join room", p))
        /\ UNCHANGED << terminated, cvars, kvars >>

LateLeaveRoomEvent(p) ==
    /\ Running
    /\ p \in terminated
    /\ Commit(OnLeaveRoom(Server, p), Event("leave room", p))
    /\ UNCHANGED << terminated, cvars, kvars >>

LateVoiceEvent(p, data) ==
    /\ Running
    /\ p \in terminated
    /\ Commit(OnVoice(Server, p, data), Event("voice", p))
    /\ UNCHANGED << terminated, cvars, kvars >>

LateSpeakingEvent(p, isSpeaking, energy) ==
    /\ Running
    /\ p \in terminated
    /\ Commit(OnSpeaking(Server, p, isSpeaking, energy),
              Event("speaking", p))
    /\ UNCHANGED << terminated, cvars, kvars >>

\* ------------------------------------------------------------- client playback
\* The client state its callbacks work on.
Client ==
    [contexts |-> contexts, audioQueue |-> audioQueue, isPlaying |-> isPlaying,
     playing |-> playing, received |-> received, played |-> played]

CommitClient(K) ==
    /\ contexts' = K.contexts
    /\ audioQueue' = K.audioQueue
    /\ isPlaying' = K.isPlaying
    /\ playing' = K.playing
    /\ received' = K.received
    /\ played' = K.played

\* audioContext && audioContext.state === 'running'
ContextRunning(K) ==
    K.contexts # <<>> /\ K.contexts[Len(K.contexts)] = "running"

\* function playNextAudio(): the started source belongs to the current audioContext
playNextAudio(K) ==
    IF Len(K.audioQueue) = 0
    THEN [K EXCEPT !.isPlaying = FALSE]
    ELSE [K EXCEPT !.isPlaying = TRUE,
                   !.audioQueue = Tail(@),
                   !.playing = Append(@, [buffer |-> Head(K.audioQueue),
                                          ctx |-> Len(K.contexts)]),
                   !.played = Append(@, Head(K.audioQueue))]

\* the client's 'voice' handler without the isPlaying test
OnClientVoice_NoFlag(K, data) ==
    IF ContextRunning(K)
    THEN playNextAudio([K EXCEPT !.audioQueue = Append(@, data),
                                 !.received = Append(@, data)])
    ELSE [K EXCEPT !.received = Append(@, data)]

\* socket.on('voice', ({ id, data }) => ...) on the client
OnClientVoice(K, data) ==
    IF ContextRunning(K)
    THEN LET K1 == [K EXCEPT !.audioQueue = Append(@, data),
                             !.received = Append(@, data)]
         IN  IF ~K1.isPlaying THEN playNextAudio(K1) ELSE K1
    ELSE [K EXCEPT !.received = Append(@, data)]

\* source.onended = playNextAudio, for the i-th pending source
OnEnded(K, i) ==
    playNextAudio([K EXCEPT !.playing =
        SubSeq(@, 1, i - 1) \o SubSeq(@, i + 1, Len(@))])

ClientInit ==
    /\ contexts = <<>>
    /\ audioQueue = <<>>
    /\ isPlaying = FALSE
    /\ playing = <<>>
    /\ received = <<>>
    /\ played = <<>>

\* startVoiceChat, from new AudioContext on: the context starts running, or
\* suspended and then awaits resume()
NewAudioContext(state) ==
    /\ Len(contexts) < MaxSessions
    /\ CommitClient([Client EXCEPT !.contexts = Append(@, state)])
    /\ UNCHANGED << svars, kvars >>

\* await audioContext.resume() completes
ContextResumed ==
    /\ contexts # <<>>
    /\ contexts[Len(contexts)] = "suspended"
    /\ CommitClient([Client EXCEPT !.contexts[Len(contexts)] = "running"])
    /\ UNCHANGED << svars, kvars >>

\* stopVoiceChat: if (audioContext) audioContext.close()
CloseAudioContext ==
    /\ contexts # <<>>
    /\ CommitClient([Client EXCEPT !.contexts[Len(contexts)] = "closed"])
    /\ UNCHANGED << svars, kvars >>

VoiceReceived(data) ==
    /\ Len(audioQueue) < MaxQueue
    /\ Len(received) < MaxReceived
    /\ CommitClient(OnClientVoice(Client, data))
    /\ UNCHANGED << svars, kvars >>

\* A source that finished playing fires onended; a suspended context plays
\* nothing, so its sources do not finish.
SourceEnded(i) ==
    /\ i \in 1..Len(playing)
    /\ contexts[playing[i].ctx] # "suspended"
    /\ CommitClient(OnEnded(Client, i))
    /\ UNCHANGED << svars, kvars >>

\* A source of a closed context is released without its onended firing.
SourceReleased(i) ==
    /\ i \in 1..Len(playing)
    /\ contexts[playing[i].ctx] = "closed"
    /\ CommitClient([Client EXCEPT !.playing =
           SubSeq(@, 1, i - 1) \o SubSeq(@, i + 1, Len(@))])
    /\ UNCHANGED << svars, kvars >>

\* ------------------------------------------------------------- client capture
\* The page's globals that joinRoom, startVoiceChat, stopVoiceChat and
\* processAudio work on; `emitted` collects what the running callback emits.
Page ==
    [contexts |-> contexts, currentUserId |-> currentUserId,
     startDisabled |-> startDisabled, stopDisabled |-> stopDisabled,
     vadEnabled |-> vadEnabled, streams |-> streams, processors |-> processors,
     micPending |-> micPending, resumePending |-> resumePending,
     lastVoiceDetectTime |-> lastVoiceDetectTime,
     isCurrentlySpeaking |-> isCurrentlySpeaking, now |-> now, emitted |-> <<>>]

\* The client step taken: its name and, for a call of detectVoiceActivity
\* alone, the energy it was given and what it returned.
Step(op, energy, result) ==
    [op |-> op, energy |-> energy, result |-> result]

CommitPage(G, step) ==
    /\ contexts' = G.contexts
    /\ currentUserId' = G.currentUserId
    /\ startDisabled' = G.startDisabled
    /\ stopDisabled' = G.stopDisabled
    /\ vadEnabled' = G.vadEnabled
    /\ streams' = G.streams
    /\ processors' = G.processors
    /\ micPending' = G.micPending
    /\ resumePending' = G.resumePending
    /\ lastVoiceDetectTime' = G.lastVoiceDetectTime
    /\ isCurrentlySpeaking' = G.isCurrentlySpeaking
    /\ now' = G.now
    /\ toServer' = toServer \o G.emitted
    /\ clast' = step
    /\ UNCHANGED << audioQueue, isPlaying, playing, received, played >>
    /\ UNCHANGED svars

\* socket.emit(ev, ...) on the client
ClientEvent(ev) ==
    [ev |-> ev, room |-> <<>>, username |-> <<>>, data |-> 0,
     isSpeaking |-> FALSE, energy |-> 0]
EmitClient(G, m) == [G EXCEPT !.emitted = Append(@, m)]
IsVoiceEvent(m) == m.ev = "voice"
IsSpeakingEvent(m) == m.ev = "speaking"

\* function joinRoom() of the client
ClientJoinRoom(G, rawRoom, rawName) ==
    LET room == Trim(rawRoom)
        username == Trim(rawName)
    IN  IF room # <<>> /\ username # <<>>
        THEN EmitClient([G EXCEPT !.startDisabled = FALSE, !.stopDisabled = TRUE],
                        [ClientEvent("join room") EXCEPT !.room = room,
                                                         !.username = username])
        ELSE G

\* startVoiceChat up to its first await: the identity test and getUserMedia
StartVoiceChat(G) ==
    IF G.currentUserId = 0 THEN G ELSE [G EXCEPT !.micPending = @ + 1]

\* startVoiceChat from createMediaStreamSource to stopButton.disabled = false:
\* the nodes are created in the current audioContext on the current stream
StartNodes(G) ==
    [G EXCEPT !.processors = Append(@, [ctx |-> Len(G.contexts),
                                        stream |-> Len(G.streams),
                                        connected |-> TRUE]),
              !.vadEnabled = TRUE,
              !.startDisabled = TRUE,
              !.stopDisabled = FALSE]

\* startVoiceChat resumed with the granted stream: new AudioContext in the
\* given state, then await resume() if it is suspended
MicGrantedTo(G, state) ==
    LET G1 == [G EXCEPT !.micPending = @ - 1,
                        !.streams = Append(@, "live"),
                        !.contexts = Append(@, state)]
    IN  IF state = "suspended"
        THEN [G1 EXCEPT !.resumePending = @ \cup { Len(G1.contexts) }]
        ELSE StartNodes(G1)

\* getUserMedia rejected: the catch block only logs
MicDeniedTo(G) == [G EXCEPT !.micPending = @ - 1]

\* startVoiceChat resumed after await audioContext.resume() on context i.
\* resume() of a closed context rejects; creating nodes in a closed current
\* context either throws (and the catch block logs) or goes on.
ResumedTo(G, i, throws) ==
    LET G1 == [G EXCEPT !.resumePending = @ \ {i}]
    IN  IF G1.contexts[i] = "closed"
        THEN G1
        ELSE LET G2 == [G1 EXCEPT !.contexts[i] = "running"]
             IN  IF G2.contexts[Len(G2.contexts)] = "closed" /\ throws
                 THEN G2
                 ELSE StartNodes(G2)

\* function stopVoiceChat()
stopVoiceChat(G) ==
    LET n == Len(G.streams)
        c == Len(G.contexts)
        k == Len(G.processors)
        G1 == IF n > 0 THEN [G EXCEPT !.streams[n] = "stopped"] ELSE G
        G2 == IF c > 0 THEN [G1 EXCEPT !.contexts[c] = "closed"] ELSE G1
        G3 == IF k > 0 THEN [G2 EXCEPT !.processors[k].connected = FALSE] ELSE G2
    IN  EmitClient([G3 EXCEPT !.vadEnabled = FALSE,
                              !.startDisabled = FALSE,
                              !.stopDisabled = TRUE],
                   ClientEvent("leave room"))

\* detectVoiceActivity with a padding window that includes its end
detectVoiceActivity_Inclusive(G, energy) ==
    LET timeSinceLastDetection == G.now - G.lastVoiceDetectTime
    IN  IF energy > ENERGY_THRESHOLD
        THEN [page |-> [G EXCEPT !.lastVoiceDetectTime = G.now], result |-> TRUE]
        ELSE IF timeSinceLastDetection <= SPEECH_PADDING
             THEN [page |-> G, result |-> TRUE]
             ELSE [page |-> G, result |-> FALSE]

\* function detectVoiceActivity(energy): the page after the call and what it returns
detectVoiceActivity(G, energy) ==
    LET timeSinceLastDetection == G.now - G.lastVoiceDetectTime
    IN  IF energy > ENERGY_THRESHOLD
        THEN [page |-> [G EXCEPT !.lastVoiceDetectTime = G.now], result |-> TRUE]
        ELSE IF timeSinceLastDetection < SPEECH_PADDING
             THEN [page |-> G, result |-> TRUE]
             ELSE [page |-> G, result |-> FALSE]

\* processAudio that emits 'speaking' for every block classified
processAudio_Always(G, energy, data) ==
    IF ~G.vadEnabled \/ G.currentUserId = 0
    THEN G
    ELSE LET d == detectVoiceActivity(G, energy)
             isSpeaking == d.result
             G1 == IF isSpeaking
                   THEN EmitClient(d.page, [ClientEvent("voice") EXCEPT !.data = data])
                   ELSE d.page
         IN  EmitClient([G1 EXCEPT !.isCurrentlySpeaking = isSpeaking],
                        [ClientEvent("speaking") EXCEPT !.isSpeaking = isSpeaking,
                                                        !.energy = energy])

\* function processAudio(audioProcessingEvent), for a block of the given energy
processAudio(G, energy, data) ==
    IF ~G.vadEnabled \/ G.currentUserId = 0
    THEN G
    ELSE LET d == detectVoiceActivity(G, energy)
             isSpeaking == d.result
             G1 == IF isSpeaking
                   THEN EmitClient(d.page, [ClientEvent("voice") EXCEPT !.data = data])
                   ELSE d.page
         IN  IF isSpeaking # G1.isCurrentlySpeaking
             THEN EmitClient([G1 EXCEPT !.isCurrentlySpeaking = isSpeaking],
                             [ClientEvent("speaking") EXCEPT !.isSpeaking = isSpeaking,
                                                             !.energy = energy])
             ELSE G1

\* A script processor calls onaudioprocess while its context runs and it is
\* connected to the destination.
Fires(G, i) ==
    /\ i \in 1..Len(G.processors)
    /\ G.contexts[G.processors[i].ctx] = "running"
    /\ G.processors[i].connected

\* The capture pipelines that are live: a firing processor fed by its stream
LivePipelines(G) == { i \in 1..Len(G.processors) : Fires(G, i) }

\* The server's handler for an event the client emitted
Handle(S, p, m) ==
    CASE m.ev = "join room" -> OnJoinRoom(S, p, m.room, m.username)
      [] m.ev = "leave room" -> OnLeaveRoom(S, p)
      [] m.ev = "voice" -> OnVoice(S, p, m.data)
      [] m.ev = "speaking" -> OnSpeaking(S, p, m.isSpeaking, m.energy)

CaptureInit ==
    /\ currentUserId = 0
    /\ startDisabled = TRUE
    /\ stopDisabled = TRUE
    /\ vadEnabled = FALSE
    /\ streams = <<>>
    /\ processors = <<>>
    /\ micPending = 0
    /\ resumePending = {}
    /\ lastVoiceDetectTime = 0
    /\ isCurrentlySpeaking = FALSE
    /\ now = PageLoadTime
    /\ toServer = <<>>
    /\ loudAt = Null
    /\ stopMark = [streams |-> 0, processors |-> 0]
    /\ lastClassified = FALSE
    /\ lastSent = FALSE
    /\ clast = Step("load", 0, FALSE)

\* A click on Join with the given input values; with an empty room or
\* username joinRoom does nothing
JoinClick(rawRoom, rawName) ==
    LET G == ClientJoinRoom(Page, rawRoom, rawName)
    IN  /\ Me \in connected
        /\ G # Page
        /\ Len(toServer \o G.emitted) <= MaxInFlight
        /\ CommitPage(G, Step("joinRoom", 0, FALSE))
        /\ UNCHANGED << loudAt, stopMark, lastClassified, lastSent >>

\* A click on Start while it is enabled; without an identity startVoiceChat
\* only logs
StartClick ==
    /\ Me \in connected
    /\ ~startDisabled
    /\ StartVoiceChat(Page) # Page
    /\ micPending + Len(streams) < MaxSessions
    /\ CommitPage(StartVoiceChat(Page), Step("startVoiceChat", 0, FALSE))
    /\ UNCHANGED << loudAt, stopMark, lastClassified, lastSent >>

\* getUserMedia resolves for one of the waiting calls
MicGranted(state) ==
    /\ micPending > 0
    /\ CommitPage(MicGrantedTo(Page, state),
                  Step(IF state = "running" THEN "capture started" ELSE "mic granted",
                       0, FALSE))
    /\ UNCHANGED << loudAt, stopMark, lastClassified, lastSent >>

\* getUserMedia rejects for one of the waiting calls
MicDenied ==
    /\ micPending > 0
    /\ CommitPage(MicDeniedTo(Page), Step("mic denied", 0, FALSE))
    /\ UNCHANGED << loudAt, stopMark, lastClassified, lastSent >>

\* audioContext.resume() settles for a waiting call
ResumeSettled(i, throws) ==
    /\ i \in resumePending
    /\ CommitPage(ResumedTo(Page, i, throws),
                  Step(IF Len(ResumedTo(Page, i, throws).processors) > Len(processors)
                       THEN "capture started" ELSE "resume failed",
                       0, FALSE))
    /\ UNCHANGED << loudAt, stopMark, lastClassified, lastSent >>

\* A click on Stop while it is enabled
StopClick ==
    LET G == stopVoiceChat(Page)
    IN  /\ Me \in connected
        /\ ~stopDisabled
        /\ Len(toServer \o G.emitted) <= MaxInFlight
        /\ CommitPage(G, Step("stopVoiceChat", 0, FALSE))
        /\ stopMark' = [streams |-> Len(streams), processors |-> Len(processors)]
        /\ UNCHANGED << loudAt, lastClassified, lastSent >>

\* Script processor i delivers a block that processAudio processes (with
\* capture disabled or no identity it returns at once): a stopped stream
\* delivers silence
AudioProcess(i, energy, data) ==
    LET G == processAudio(Page, energy, data)
    IN  /\ Fires(Page, i)
        /\ vadEnabled /\ currentUserId # 0
        /\ streams[processors[i].stream] = "stopped" => energy < ENERGY_THRESHOLD
        /\ Len(toServer \o G.emitted) <= MaxInFlight
        /\ CommitPage(G, Step("processAudio", 0, FALSE))
        /\ loudAt' = IF energy > ENERGY_THRESHOLD THEN Some(now) ELSE loudAt
        /\ lastClassified' = detectVoiceActivity(Page, energy).result
        /\ lastSent' = LET sent == SelectSeq(G.emitted, IsSpeakingEvent)
                       IN  IF sent # <<>> THEN sent[Len(sent)].isSpeaking
                           ELSE lastSent
        /\ UNCHANGED stopMark

\* detectVoiceActivity applied to an energy reading
DetectVoiceActivity(energy) ==
    LET d == detectVoiceActivity(Page, energy)
    IN  /\ CommitPage(d.page, Step("detectVoiceActivity", energy, d.result))
        /\ loudAt' = IF energy > ENERGY_THRESHOLD THEN Some(now) ELSE loudAt
        /\ UNCHANGED << stopMark, lastClassified, lastSent >>

\* Date.now() advances
Tick(dt) ==
    /\ now + dt <= PageLoadTime + MaxElapsed
    /\ now' = now + dt
    /\ UNCHANGED << svars, cvars, currentUserId, startDisabled, stopDisabled,
                    vadEnabled, streams, processors, micPending, resumePending,
                    lastVoiceDetectTime, isCurrentlySpeaking, toServer, loudAt,
                    stopMark, lastClassified, lastSent, clast >>

\* The server handles the client's oldest event, and the client its 'your id'
ServerReceives ==
    LET S == Handle(Server, Me, Head(toServer))
        ids == { S.out[j].id : j \in { k \in 1..Len(S.out) :
                     S.out[k].ev = "your id" /\ Me \in S.out[k].to } }
    IN  /\ Running
        /\ toServer # <<>>
        /\ Commit(S, Event(Head(toServer).ev, Me))
        /\ toServer' = Tail(toServer)
        /\ currentUserId' = IF ids # {} THEN CHOOSE id \in ids : TRUE
                            ELSE currentUserId
        /\ UNCHANGED << terminated, cvars, startDisabled, stopDisabled, vadEnabled,
                        streams, processors, micPending, resumePending,
                        lastVoiceDetectTime, isCurrentlySpeaking, now, loudAt,
                        stopMark, lastClassified, lastSent, clast >>

\* ------------------------------------------------------------- specifications
Init == ServerInit /\ ClientInit /\ CaptureInit

Next ==
    \/ \E p \in Conns : Connection(p)
    \/ \E p \in Conns, r \in RawRooms : \E n \in RawNames(p) : JoinRoomEvent(p, r, n)
    \/ \E p \in Conns : LeaveRoomEvent(p)
    \/ \E p \in Conns, d \in Blocks : VoiceEvent(p, d)
    \/ \E p \in Conns, s \in BOOLEAN, e \in Energies : SpeakingEvent(p, s, e)
    \/ \E p \in Conns : DisconnectEvent(p)

\* The server with its connections' events, the client side left alone.
Spec == Init /\ [][Next]_vars

LateNext ==
    \/ \E p \in Conns, r \in RawRooms : \E n \in RawNames(p) : LateJoinRoomEvent(p, r, n)
    \/ \E p \in Conns : LateLeaveRoomEvent(p)
    \/ \E p \in Conns, d \in Blocks : LateVoiceEvent(p, d)
    \/ \E p \in Conns, s \in BOOLEAN, e \in Energies : LateSpeakingEvent(p, s, e)

\* The server when handlers may still be given events after 'disconnect'.
SpecLate == Init /\ [][Next \/ LateNext]_vars

PlayNext ==
    \/ \E st \in {"running", "suspended"} : NewAudioContext(st)
    \/ ContextResumed
    \/ CloseAudioContext
    \/ \E d \in Blocks : VoiceReceived(d)
    \/ \E i \in 1..MaxQueue : SourceEnded(i)
    \/ \E i \in 1..MaxQueue : SourceReleased(i)

\* One client's playback queue under any arrival of 'voice' events.
SpecPlay == Init /\ [][PlayNext]_vars

VadNext ==
    \/ \E e \in MicEnergies : DetectVoiceActivity(e)
    \/ Tick(TickMs)

\* detectVoiceActivity on any sequence of readings at any times.
SpecVad == Init /\ [][VadNext]_vars

CaptureNext ==
    \/ Connection(Me)
    \/ \E r \in RawRooms, n \in RawNames(Me) : JoinClick(r, n)
    \/ StartClick
    \/ \E st \in {"running", "suspended"} : MicGranted(st)
    \/ MicDenied
    \/ \E i \in 1..MaxSessions, t \in BOOLEAN : ResumeSettled(i, t)
    \/ StopClick
    \/ \E i \in 1..MaxSessions, e \in SessionEnergies, d \in SessionBlocks :
           AudioProcess(i, e, d)
    \/ Tick(SPEECH_PADDING)
    \/ ServerReceives

\* One client's buttons, capture sessions and voice activity detection, with the
\* server handling what it emits.
SpecCapture == Init /\ [][CaptureNext]_vars

\* ------------------------------------------------------------- properties
\* The participants of room r in server state S (none when r is not registered)
Participants(S, r) == IF r \in DOMAIN S.rooms THEN DOMAIN S.rooms[r] ELSE {}

\* The registry rooms connection p is a participant of
RoomsOf(S, p) == { r \in DOMAIN S.rooms : p \in DOMAIN S.rooms[r] }

\* The emissions named ev in emission list o, and the connections they reach
Sent(o, ev) == { o[i] : i \in { j \in 1..Len(o) : o[j].ev = ev } }
Receivers(o, ev) == UNION { m.to : m \in Sent(o, ev) }

\* What connection q receives of emission list o, in order
Inbox(o, q) ==
    LET ForQ(m) == q \in m.to
        Keep == SelectSeq(o, ForQ)
    IN  [i \in 1..Len(Keep) |-> [Keep[i] EXCEPT !.to = {q}]]

\* C1: every room in the registry has a participant, and that participant is a
\* connected socket bound to the room: a room whose last participant left or
\* disconnected is not in the registry.
C1_NoEmptyRoom ==
    \A r \in DOMAIN rooms :
        /\ DOMAIN rooms[r] # {}
        /\ \E p \in DOMAIN rooms[r] : p \in connected /\ currentRoom[p] = Some(r)

\* A leave or disconnect emptied a room and removed it while another room stays.
C1_Witness ==
    /\ last.op \in {"leave room", "disconnect"}
    /\ \E m \in Sent(out, "update rooms") : m.roomList = DOMAIN rooms
    /\ rooms # EmptyMap

\* C2: a connection is a participant of at most one room; a 'join room' for B
\* from a connection bound to A leaves it in B's participants and, for A # B,
\* out of A's, and A is unregistered when the connection was A's last member.
C2_JoinImpliesLeave ==
    /\ \A p \in Conns : Cardinality(RoomsOf(Server, p)) <= 1
    /\ \A p \in connected, B \in RoomNames : \A n \in UserNames(p) :
          Truthy(currentRoom[p]) =>
              LET A == currentRoom[p][1]
                  T == OnJoinRoom(Server, p, B, n)
              IN  /\ RoomsOf(T, p) = {B}
                  /\ T.currentRoom[p] = Some(B)
                  /\ (A # B /\ Participants(Server, A) = {p}) => A \notin DOMAIN T.rooms
                  /\ (A # B /\ Participants(Server, A) # {p}) =>
                         Participants(T, A) = Participants(Server, A) \ {p}

\* A connection that was alone in its room has joined a room that had a member.
C2_Witness ==
    /\ last.op = "join room"
    /\ Len(out) = 6
    /\ out[1].ev = "user left" /\ out[2].ev = "update rooms"
    /\ Cardinality(Participants(Server, currentRoom[last.id][1])) >= 2

\* C3: a 'voice' event from P bound to R is relayed once, tagged with P's id and
\* carrying the block, to exactly the registry participants of R other than P.
C3_RelayExclusive ==
    \A p \in connected, d \in Blocks :
        Truthy(currentRoom[p]) =>
            LET R == currentRoom[p][1]
                T == OnVoice(Server, p, d)
            IN  /\ T.out = << [Msg("voice", Participants(Server, R) \ {p})
                                   EXCEPT !.id = p, !.data = d] >>
                /\ T.rooms = rooms

\* A block was relayed to a room peer while a participant of another room and
\* the sender got nothing.
C3_Witness ==
    /\ last.op = "voice"
    /\ Len(out) = 1
    /\ out[1].to # {}
    /\ last.id \notin out[1].to
    /\ \E q \in connected : RoomsOf(Server, q) # {} /\ q \notin out[1].to /\ q # last.id

\* C4: for a connection P bound to a room, 'disconnect' and 'leave room' end in
\* the same registry and send the same events to every other connection.
C4_DisconnectAsLeave ==
    \A p \in connected :
        Truthy(currentRoom[p]) =>
            LET L == OnLeaveRoom(Server, p)
                D == OnDisconnect(Closed(Server, p), p)
            IN  /\ L.rooms = D.rooms
                /\ \A q \in connected \ {p} : Inbox(L.out, q) = Inbox(D.out, q)

\* A disconnect told the remaining members of the room that the user left.
C4_Witness ==
    /\ last.op = "disconnect"
    /\ Receivers(out, "user left") # {}
    /\ last.id \notin UNION { Participants(Server, r) : r \in RoomNames }

\* C5: on 'join room'(R, name) from P, 'user joined' with P's id and name reaches
\* the members of R other than P and not P; 'room users' and 'your id' reach P
\* alone; 'update rooms' reaches every connected client.
C5_JoinNotifications ==
    \A p \in connected, R \in RoomNames : \A n \in UserNames(p) :
        LET T == OnJoinRoom(Server, p, R, n)
        IN  /\ Receivers(T.out, "user joined") = Participants(T, R) \ {p}
            /\ \A m \in Sent(T.out, "user joined") : m.id = p /\ m.username = n
            /\ Receivers(T.out, "room users") = {p}
            /\ Receivers(T.out, "your id") = {p}
            /\ Receivers(T.out, "update rooms") = connected

\* C6: an explicit 'leave room' from P bound to R removes P from R and nothing
\* else, sends 'user left' with P's id to exactly the remaining members,
\* 'room left' to P alone, and 'update rooms' to everyone if and only if R became
\* empty; from an unbound connection it changes nothing and emits nothing.
C6_LeaveNotifications ==
    \A p \in connected :
        LET T == OnLeaveRoom(Server, p)
        IN  IF Truthy(currentRoom[p])
            THEN LET R == currentRoom[p][1]
                     remaining == Participants(Server, R) \ {p}
                 IN  /\ \A r \in RoomNames :
                            Participants(T, r) =
                                IF r = R THEN remaining ELSE Participants(Server, r)
                     /\ \A r \in DOMAIN T.rooms : \A q \in DOMAIN T.rooms[r] :
                            T.rooms[r][q] = rooms[r][q]
                     /\ T.currentRoom = [currentRoom EXCEPT ![p] = Null]
                     /\ Receivers(T.out, "user left") = remaining
                     /\ \A m \in Sent(T.out, "user left") : m.id = p
                     /\ Receivers(T.out, "room left") = {p}
                     /\ IF remaining = {}
                        THEN /\ Receivers(T.out, "update rooms") = connected
                             /\ \A m \in Sent(T.out, "update rooms") :
                                    m.roomList = DOMAIN rooms \ {R}
                        ELSE Sent(T.out, "update rooms") = {}
                     /\ \A i \in 1..Len(T.out) :
                            T.out[i].ev \in {"user left", "room left", "update rooms"}
            ELSE T = Server

\* A leave told the remaining members, and the leaver that it has left.
C6_Witness ==
    /\ last.op = "leave room"
    /\ Receivers(out, "user left") # {}
    /\ Receivers(out, "room left") = {last.id}
    /\ last.id \notin Receivers(out, "user left")
    /\ Sent(out, "update rooms") = {}

\* C7: a 'speaking' event from P bound to R sets P's registry entry to the two
\* values sent, changes no other entry and no membership, and 'user speaking'
\* with P's id and the values reaches exactly the members of R, P included.
C7_SpeakingBroadcast ==
    \A p \in connected, s \in BOOLEAN, e \in Energies :
        Truthy(currentRoom[p]) =>
            LET R == currentRoom[p][1]
                T == OnSpeaking(Server, p, s, e)
            IN  /\ ~T.threw
                /\ T.rooms = [rooms EXCEPT ![R][p] =
                       [username |-> rooms[R][p].username, isSpeaking |-> s, energy |-> e]]
                /\ T.currentRoom = currentRoom
                /\ T.out = << [Msg("user speaking", Participants(Server, R))
                                   EXCEPT !.id = p, !.isSpeaking = s, !.energy = e] >>
                /\ p \in Receivers(T.out, "user speaking")

\* A speaking state reached the sender and a room peer, not a third connection,
\* and is stored in the registry.
C7_Witness ==
    /\ last.op = "speaking"
    /\ Len(out) = 1
    /\ last.id \in out[1].to
    /\ Cardinality(out[1].to) >= 2
    /\ connected \ out[1].to # {}
    /\ rooms[currentRoom[last.id][1]][last.id].isSpeaking
    /\ out[1].isSpeaking

\* C8: 'voice' and 'speaking' from a connection bound to no room change nothing,
\* emit nothing and do not fail; 'speaking' for an identity that is not a
\* participant of its room leaves the registry unchanged and emits nothing.
C8_UnboundDropped ==
    \A p \in connected \cup terminated, s \in BOOLEAN, e \in Energies, d \in Blocks :
        /\ ~Truthy(currentRoom[p]) =>
               /\ OnVoice(Server, p, d) = Server
               /\ OnSpeaking(Server, p, s, e) = Server
        /\ (Truthy(currentRoom[p]) /\ p \notin Participants(Server, currentRoom[p][1])) =>
               LET T == OnSpeaking(Server, p, s, e)
               IN  T.rooms = rooms /\ T.out = <<>>

\* A connection that left its room sent an event that was dropped, while a room
\* with participants exists.
C8_Witness ==
    /\ last.op \in {"voice", "speaking"}
    /\ last.id \in connected
    /\ currentRoom[last.id] = Null
    /\ out = <<>>
    /\ ~threw
    /\ rooms # EmptyMap
    /\ \E p \in terminated :
           Truthy(currentRoom[p]) /\ currentRoom[p][1] \in DOMAIN rooms

\* C9: every event handled for a connection after its 'disconnect' is ignored:
\* no registry change, nothing delivered, no error.
C9_LateEventsIgnored ==
    \A p \in terminated :
        LET Ignored(T) == T.rooms = rooms /\ ~T.threw
                            /\ \A i \in 1..Len(T.out) : T.out[i].to = {}
        IN  /\ \A R \in RoomNames : \A n \in UserNames(p) :
                   Ignored(OnJoinRoom(Server, p, R, n))
            /\ Ignored(OnLeaveRoom(Server, p))
            /\ \A d \in Blocks : Ignored(OnVoice(Server, p, d))
            /\ \A s \in BOOLEAN, e \in Energies : Ignored(OnSpeaking(Server, p, s, e))

\* C10: at most one received block is playing (started and awaiting onended),
\* and none is when the isPlaying flag is down.
C10_OneAtATime ==
    /\ Len(playing) <= 1
    /\ ~isPlaying => playing = <<>>

\* A block arrived while another was playing and waits in the queue.
C10_Witness ==
    /\ Len(playing) = 1
    /\ isPlaying
    /\ Len(audioQueue) >= 2
    /\ contexts[playing[1].ctx] = "running"

\* C11: every block delivered in a 'voice' event is played exactly once and in
\* the order received, none is dropped, and the queue is never non-empty with
\* nothing playing: the blocks received are the blocks started followed by the
\* blocks still queued, and a queued block waits behind a playing one.
C11_PlayedInOrder ==
    /\ received = played \o audioQueue
    /\ audioQueue # <<>> => playing # <<>>

\* C17: after every handler, a connected socket's currentRoom is non-null
\* exactly when its identity is a participant of some registry room, and that
\* room is then the only one; the transport membership of every room is the
\* registry's participant set; so the 'speaking' handler's lookup of
\* rooms.get(currentRoom) never finds the room missing.
C17_BindingMatchesRegistry ==
    /\ \A p \in connected :
           /\ Truthy(currentRoom[p]) <=> RoomsOf(Server, p) # {}
           /\ Truthy(currentRoom[p]) => RoomsOf(Server, p) = { currentRoom[p][1] }
           /\ \A s \in BOOLEAN, e \in Energies :
                  ~OnSpeaking(Server, p, s, e).threw
    /\ \A r \in RoomNames : members[r] = Participants(Server, r)
    /\ ~threw

\* A connection bound to one room just switched rooms while another connection
\* stays in the room it left, and a third has none.
C17_Witness ==
    /\ last.op = "join room"
    /\ \E p \in connected, q \in connected, n \in connected :
           /\ p # q
           /\ Truthy(currentRoom[p]) /\ Truthy(currentRoom[q])
           /\ currentRoom[p] # currentRoom[q]
           /\ p = last.id
           /\ currentRoom[n] = Null
    /\ Sent(out, "user left") # {}

\* What detectVoiceActivity returns for readings taken one after the other,
\* each a record of the time it is taken at and its energy
RECURSIVE Classify(_, _)
Classify(G, readings) ==
    IF readings = <<>>
    THEN <<>>
    ELSE LET d == detectVoiceActivity([G EXCEPT !.now = Head(readings).at],
                                      Head(readings).energy)
         IN  << d.result >> \o Classify(d.page, Tail(readings))

\* C14: a block is classified speaking exactly when its energy is above -45 dB
\* or the last block above the threshold was seen less than 300 ms before; only
\* a block above the threshold moves lastVoiceDetectTime; readings above, below,
\* below at t, t+50, t+350 give speaking, speaking, not speaking; and a block
\* below the threshold exactly 300 ms after the last one above is not speaking.
C14_DetectVoiceActivity ==
    LET Padded == loudAt # Null /\ now - loudAt[1] < SPEECH_PADDING
        Above == { e \in MicEnergies : e > ENERGY_THRESHOLD }
        Below == MicEnergies \ Above
    IN  /\ \A e \in MicEnergies :
               LET d == detectVoiceActivity(Page, e)
               IN  /\ d.result = (e > ENERGY_THRESHOLD \/ Padded)
                   /\ d.page = [Page EXCEPT !.lastVoiceDetectTime =
                                    IF e > ENERGY_THRESHOLD THEN now ELSE @]
        /\ \A hi \in Above, lo \in Below, lower \in Below :
               /\ Classify(Page, << [at |-> now, energy |-> hi],
                                    [at |-> now + 50, energy |-> lo],
                                    [at |-> now + 350, energy |-> lower] >>)
                      = << TRUE, TRUE, FALSE >>
               /\ Classify(Page, << [at |-> now, energy |-> hi],
                                    [at |-> now + SPEECH_PADDING, energy |-> lo] >>)
                      = << TRUE, FALSE >>

\* A block at the threshold, taken exactly 300 ms after the last block above it,
\* was classified not speaking.
C14_Witness ==
    /\ clast.op = "detectVoiceActivity"
    /\ clast.energy = ENERGY_THRESHOLD
    /\ ~clast.result
    /\ loudAt # Null
    /\ now - loudAt[1] = SPEECH_PADDING
    /\ lastVoiceDetectTime = loudAt[1]

\* C12: for every block the capture pipeline processes (capture enabled and the
\* identity assigned), 'voice' is emitted exactly when the block is classified
\* speaking, and 'speaking' exactly when its classification differs from that
\* of the block processed before it (not speaking before the first block); so
\* the 'speaking' events of a client alternate true / false, starting with true.
C12_EmitsPerBlock ==
    (vadEnabled /\ currentUserId # 0) =>
        \A e \in MicEnergies, d \in Blocks :
            LET G == processAudio(Page, e, d)
                class == detectVoiceActivity(Page, e).result
                voice == SelectSeq(G.emitted, IsVoiceEvent)
                speaking == SelectSeq(G.emitted, IsSpeakingEvent)
            IN  /\ Len(voice) = (IF class THEN 1 ELSE 0)
                /\ \A i \in 1..Len(voice) : voice[i].data = d
                /\ Len(speaking) = (IF class # lastClassified THEN 1 ELSE 0)
                /\ \A i \in 1..Len(speaking) :
                       /\ speaking[i].isSpeaking = class
                       /\ speaking[i].isSpeaking # lastSent

\* In a second capture session, a block below the threshold and outside the
\* padding was processed: 'speaking' false was emitted and no 'voice'.
C12_Witness ==
    /\ clast.op = "processAudio"
    /\ ~lastClassified
    /\ toServer # <<>>
    /\ toServer[Len(toServer)].ev = "speaking"
    /\ ~toServer[Len(toServer)].isSpeaking
    /\ \A i \in 1..Len(toServer) : toServer[i].ev # "voice"
    /\ ~isCurrentlySpeaking
    /\ Len(processors) > 1

\* C13: stopVoiceChat emits 'leave room' and releases the capture: after it,
\* no stream and no script processor that existed when Stop was clicked is
\* live, and no audio callback of such a processor emits 'voice' or 'speaking',
\* at once or after a later startVoiceChat.
C13_StopReleases ==
    /\ ~stopDisabled =>
           stopVoiceChat(Page).emitted = << ClientEvent("leave room") >>
    /\ \A n \in 1..stopMark.streams : streams[n] = "stopped"
    /\ \A i \in 1..stopMark.processors :
           /\ ~Fires(Page, i)
           /\ \A e \in MicEnergies, d \in Blocks :
                  Fires(Page, i) => processAudio(Page, e, d).emitted = <<>>

\* C15: a capture session starts with isCurrentlySpeaking false and no earlier
\* detection, so that the first block of the session classified speaking
\* makes processAudio emit 'speaking' with isSpeaking true.
C15_FreshVadState ==
    clast.op = "capture started" =>
        /\ ~isCurrentlySpeaking
        /\ lastVoiceDetectTime = 0
        /\ \A e \in MicEnergies, d \in Blocks :
               detectVoiceActivity(Page, e).result =>
                   \E i \in 1..Len(processAudio(Page, e, d).emitted) :
                       LET m == processAudio(Page, e, d).emitted[i]
                       IN  m.ev = "speaking" /\ m.isSpeaking

\* C16: when getUserMedia fails, capture does not start and nothing is
\* emitted by the attempt, and the client still plays what it receives: a
\* block delivered in 'voice' after the failure is queued or started.
C16_ListenAfterMicFailure ==
    /\ micPending > 0 =>
           LET G == MicDeniedTo(Page)
           IN  /\ G.vadEnabled = vadEnabled
               /\ G.streams = streams
               /\ G.processors = processors
               /\ G.emitted = <<>>
    /\ clast.op = "mic denied" =>
           \A d \in Blocks :
               LET K == OnClientVoice(Client, d)
               IN  K.audioQueue # audioQueue \/ K.played # played

\* C19: at most one capture pipeline is live at any time.
C19_OnePipeline ==
    Cardinality(LivePipelines(Page)) <= 1

\* C18: when the server has handled every event the client emitted and the
\* client is bound to a room, the registry's isSpeaking of the client is the
\* client's isCurrentlySpeaking.
C18_SpeakingFlagAgrees ==
    (toServer = <<>> /\ Me \in connected /\ Truthy(currentRoom[Me])
        /\ Me \in Participants(Server, currentRoom[Me][1])) =>
        rooms[currentRoom[Me][1]][Me].isSpeaking = isCurrentlySpeaking

\* C20: when every event the server sent has been handled by its client, the
\* user list of a client bound to room R holds exactly the registry's
\* participants of R, each once (the client itself included), and the list of
\* a client bound to no room (it left, or never joined) is empty.
C20_UserListMatchesRegistry ==
    \A p \in connected :
        IF Truthy(currentRoom[p])
        THEN \A q \in Conns :
                 userList[p][q] =
                     (IF q \in Participants(Server, currentRoom[p][1]) THEN 1 ELSE 0)
        ELSE userList[p] = NoUsers

\* A client re-joined the room it was in, which it shares with another client,
\* after a third client had left that room.
C20_Witness ==
    /\ last.op = "join room"
    /\ Sent(out, "user left") # {}
    /\ \E p \in connected, q \in connected, n \in connected :
           /\ p = last.id /\ q # p /\ n # p /\ n # q
           /\ Truthy(currentRoom[p])
           /\ currentRoom[q] = currentRoom[p]
           /\ currentRoom[n] = Null
           /\ { m.id : m \in Sent(out, "user left") } = {p}
           /\ userList[q][p] = 1 /\ userList[p][q] = 1 /\ userList[p][p] = 1
           /\ userList[q][n] = 0
           /\ userList[n] = NoUsers

====
